---- MODULE Spec2Model ----
(***************************************************************************)
(* Train -> artifact -> load -> predict lifecycle of centrico-livelab.     *)
(*                                                                         *)
(* The trainer (services/trainer/app/train.py) writes three files into the *)
(* artifact directory; the inference service (services/inference/app/      *)
(* main.py) keeps the module globals MODEL, MODEL_VERSION, FEATURES and    *)
(* serves /predict, /explain, /reload_model, /model and /health.  The      *)
(* handlers are plain `def` functions, which FastAPI runs on a thread      *)
(* pool, so a handler's reads of the globals interleave with the writes of *)
(* try_load_model; each read or write of a global is one step.             *)
(*                                                                         *)
(* A training run is identified by its number; its model_version (a UTC    *)
(* timestamp string) is modelled by that number, "none" by VersionNone.    *)
(* Feature values are abstracted to the set of names a mapping carries.    *)
(*                                                                         *)
(* One load runs at a time (startup, then /reload_model calls in turn) and *)
(* one request is in flight beside it; the trainer and whoever removes the *)
(* artifact directory run beside both.                                     *)
(*                                                                         *)
(* The batch programs have specifications of their own: SpecIngest and     *)
(* FairIngest (services/ingestion/app/collector.py, one process started    *)
(* with --once or --loop), SpecFeatures (bikes_features and                *)
(* weather_features, the trainer's and the service's copies, on JSON       *)
(* payloads), SpecJoin (load_raw_from_db: the as-of join of the two        *)
(* tables, time in minutes, followed by the service's                      *)
(* load_latest_features_from_db on the same tables), SpecLabel (the q20    *)
(* label rule, free_ratio in thousandths) and SpecTrain and FairTrain      *)
(* (train.py main: one run of the trainer, --synthetic or on the store,    *)
(* up to its three writes).                                                *)
(***************************************************************************)
EXTENDS Integers, Sequences, FiniteSets, TLC

\* ------------------------------------------------------------------ bounds
MaxRuns == 2

\* --------------------------------------------------------------- constants
NoModel == 0
VersionNone == 0
NoRun == 0

FeatureCols ==
  << "stations_count", "free_bikes", "empty_slots", "total_slots", "free_ratio",
     "temp_2m", "precipitation", "wind_speed_10m" >>

BikeFeatureNames ==
  {"stations_count", "free_bikes", "empty_slots", "total_slots", "free_ratio"}

WeatherFeatureNames == {"temp_2m", "precipitation", "wind_speed_10m"}

Range(s) == {s[i] : i \in 1..Len(s)}

VARIABLES
  modelFile,      \* model.joblib in ARTIFACT_DIR
  metricsFile,    \* metrics.json
  metaFile,       \* metadata.json
  trainer,        \* the training process: [pc, run]
  runs,           \* number of training runs started so far
  MODEL,          \* main.py global: run whose pipeline is in memory, or NoModel
  MODEL_VERSION,  \* main.py global
  FEATURES,       \* main.py global: [names, src], src = run whose metadata gave the list
  app,            \* "init" | "starting" | "serving" | "crashed"
  ld,             \* the thread executing try_load_model (startup or /reload_model)
  rq,             \* the thread executing /predict, /explain, /health or /model
  snaps,          \* history: the triples memory held between loads while the request
                  \* ran, those that agree with what the request has read so far
  unloaded,       \* history: a /reload_model found no artifact and no load succeeded since
  ing,            \* collector.py: the ingestion process
  store,          \* the committed rows of raw_bikes and raw_weather
  fx,             \* one call of a feature extractor: payload in, mapping out
  jn,             \* one call of load_raw_from_db: the two tables in, the frame out
  lb,             \* one application of the q20 label rule: free_ratio column in, labels out
  tm              \* train.py main: one run of the trainer, --synthetic or on the store

serveVars == << modelFile, metricsFile, metaFile, trainer, runs,
                MODEL, MODEL_VERSION, FEATURES, app, ld, rq, snaps, unloaded >>

\* what the batch programs (ingestion, feature extraction, dataset builder,
\* label rule) work on; the inference service and the artifact writer leave
\* these alone
batchVars == << ing, store, fx, jn, lb, tm >>

vars == << modelFile, metricsFile, metaFile, trainer, runs,
           MODEL, MODEL_VERSION, FEATURES, app, ld, rq, snaps, unloaded,
           ing, store, fx, jn, lb, tm >>

diskVars == << modelFile, metricsFile, metaFile, trainer, runs >>
memVars == << MODEL, MODEL_VERSION, FEATURES >>

\* ------------------------------------------------------------------- files
\* A file is absent, or holds what run `run` wrote; ok = FALSE while the
\* write is in progress (opened with "w": truncated, content incomplete).
Absent == [run |-> NoRun, ok |-> FALSE]
Partial(r) == [run |-> r, ok |-> FALSE]
Complete(r) == [run |-> r, ok |-> TRUE]
Exists(f) == f.run # NoRun
Readable(f) == f.run # NoRun /\ f.ok

\* metadata.json of run r: model_version and features
MetaVersion(r) == r
MetaFeatures(r) == [names |-> FeatureCols, src |-> r]
NoFeatures == [names |-> << >>, src |-> NoRun]

\* ----------------------------------------------------------------- trainer
TrainerIdle == [pc |-> "idle", run |-> NoRun]

\* train_and_save up to the first write: fit, evaluate, model_version
TrainStart ==
  /\ trainer.pc = "idle"
  /\ runs < MaxRuns
  /\ runs' = runs + 1
  /\ trainer' = [pc |-> "dump_model", run |-> runs + 1]
  /\ UNCHANGED << modelFile, metricsFile, metaFile, memVars, app, ld, rq, snaps, unloaded, batchVars >>

\* joblib.dump(pipe, model_path): open for writing, then the content
DumpModelOpen ==
  /\ trainer.pc = "dump_model"
  /\ modelFile' = Partial(trainer.run)
  /\ trainer' = [trainer EXCEPT !.pc = "dump_model_write"]
  /\ UNCHANGED << metricsFile, metaFile, runs, memVars, app, ld, rq, snaps, unloaded, batchVars >>

DumpModelWrite ==
  /\ trainer.pc = "dump_model_write"
  /\ modelFile' = Complete(trainer.run)
  /\ trainer' = [trainer EXCEPT !.pc = "metrics"]
  /\ UNCHANGED << metricsFile, metaFile, runs, memVars, app, ld, rq, snaps, unloaded, batchVars >>

WriteMetricsOpen ==
  /\ trainer.pc = "metrics"
  /\ metricsFile' = Partial(trainer.run)
  /\ trainer' = [trainer EXCEPT !.pc = "metrics_write"]
  /\ UNCHANGED << modelFile, metaFile, runs, memVars, app, ld, rq, snaps, unloaded, batchVars >>

WriteMetricsWrite ==
  /\ trainer.pc = "metrics_write"
  /\ metricsFile' = Complete(trainer.run)
  /\ trainer' = [trainer EXCEPT !.pc = "meta"]
  /\ UNCHANGED << modelFile, metaFile, runs, memVars, app, ld, rq, snaps, unloaded, batchVars >>

WriteMetaOpen ==
  /\ trainer.pc = "meta"
  /\ metaFile' = Partial(trainer.run)
  /\ trainer' = [trainer EXCEPT !.pc = "meta_write"]
  /\ UNCHANGED << modelFile, metricsFile, runs, memVars, app, ld, rq, snaps, unloaded, batchVars >>

WriteMetaWrite ==
  /\ trainer.pc = "meta_write"
  /\ metaFile' = Complete(trainer.run)
  /\ trainer' = TrainerIdle
  /\ UNCHANGED << modelFile, metricsFile, runs, memVars, app, ld, rq, snaps, unloaded, batchVars >>

\* the run dies (exception, kill) between two of its writes
TrainFail ==
  /\ trainer.pc \in {"metrics", "meta"}
  /\ trainer' = TrainerIdle
  /\ UNCHANGED << modelFile, metricsFile, metaFile, runs, memVars, app, ld, rq, snaps, unloaded, batchVars >>

\* the artifact directory is removed (the tests' TemporaryDirectory cleanup)
RemoveArtifacts ==
  /\ trainer.pc = "idle"
  /\ Exists(modelFile) \/ Exists(metaFile) \/ Exists(metricsFile)
  /\ modelFile' = Absent
  /\ metricsFile' = Absent
  /\ metaFile' = Absent
  /\ UNCHANGED << trainer, runs, memVars, app, ld, rq, snaps, unloaded, batchVars >>

\* model.joblib alone is removed
RemoveModelFile ==
  /\ trainer.pc = "idle"
  /\ Exists(modelFile)
  /\ modelFile' = Absent
  /\ UNCHANGED << metricsFile, metaFile, trainer, runs, memVars, app, ld, rq, snaps, unloaded, batchVars >>

\* ------------------------------------------------------------------ loader
LdIdle == [pc |-> "idle", kind |-> "none", sawMeta |-> FALSE, sawModel |-> FALSE,
           before |-> << NoRun, VersionNone, NoModel >>, meta |-> NoRun, ok |-> FALSE, raised |-> FALSE,
           status |-> 0, version |-> VersionNone, counted |-> << >>]

\* variant of ArtifactsPresent: `or` for `and`
ArtifactsPresent_either(meta, model) == Exists(meta) \/ Exists(model)

\* line 194: both files must exist
ArtifactsPresent(meta, model) == Exists(meta) /\ Exists(model)

\* what a reader of the three globals finds
Triple == << FEATURES.src, MODEL_VERSION, MODEL >>

\* the last triple memory held before the load now between its first and
\* its last assignment began (the current one if no load is half done)
MidLoad == {"clear_version", "clear_features", "set_version", "load_model"}
Quiet == IF ld.pc \in MidLoad THEN ld.before ELSE Triple

\* triple s agrees with the reads request r has made of the globals
Agrees(r, s) ==
  /\ r.pc \in {"missing", "row", "frame", "score", "log", "llm", "respond"}
        => s[3] = r.gateModel
  /\ r.pc \in {"frame", "score", "log", "llm", "respond"} => s[1] = r.rowSrc
  /\ r.pc \in {"score", "log", "llm", "respond"} => s[1] = r.colsSrc
  /\ r.pc \in {"log", "llm", "respond"} => s[3] = r.scoredBy

\* a load ended leaving triple s in memory
Settled(s) ==
  IF rq.pc \in {"idle", "done", "health", "model"} \/ ~Agrees(rq, s)
    THEN snaps
    ELSE snaps \cup {s}

\* the request read value v as component i of the triple
Keep(i, v) == {s \in snaps : s[i] = v}

\* @app.on_event("startup")
OnStartup ==
  /\ app = "init"
  /\ app' = "starting"
  /\ ld' = [LdIdle EXCEPT !.pc = "check", !.kind = "startup", !.before = Triple]
  /\ UNCHANGED << diskVars, memVars, rq, snaps, unloaded, batchVars >>

\* POST /reload_model
ReloadStart ==
  /\ app = "serving"
  /\ ld.pc = "idle"
  /\ ld' = [LdIdle EXCEPT !.pc = "check", !.kind = "reload", !.before = Triple]
  /\ UNCHANGED << diskVars, memVars, app, rq, snaps, unloaded, batchVars >>

\* an exception leaves try_load_model: startup fails, /reload_model answers
\* 500 (the framework's answer to an unhandled exception)
LdRaise(l) ==
  [l EXCEPT !.pc = "done", !.raised = TRUE, !.ok = FALSE, !.status = 500]

\* line 194
LoadCheck ==
  /\ ld.pc = "check"
  /\ ld' = [ld EXCEPT !.sawMeta = Exists(metaFile),
                      !.sawModel = Exists(modelFile),
                      !.pc = IF ArtifactsPresent(metaFile, modelFile)
                               THEN "read_meta" ELSE "clear_model"]
  /\ UNCHANGED << diskVars, memVars, app, rq, snaps, unloaded, batchVars >>

\* variant of ClearModel: the assignment MODEL = None left out
ClearModel_keep ==
  /\ ld.pc = "clear_model"
  /\ ld' = [ld EXCEPT !.pc = "clear_version"]
  /\ UNCHANGED << diskVars, memVars, app, rq, snaps, unloaded, batchVars >>

\* line 195
ClearModel ==
  /\ ld.pc = "clear_model"
  /\ MODEL' = NoModel
  /\ ld' = [ld EXCEPT !.pc = "clear_version"]
  /\ UNCHANGED << diskVars, MODEL_VERSION, FEATURES, app, rq, snaps, unloaded, batchVars >>

\* line 196
ClearVersion ==
  /\ ld.pc = "clear_version"
  /\ MODEL_VERSION' = VersionNone
  /\ ld' = [ld EXCEPT !.pc = "clear_features"]
  /\ UNCHANGED << diskVars, MODEL, FEATURES, app, rq, snaps, unloaded, batchVars >>

\* lines 197-203: FEATURES = [], return False
ClearFeatures ==
  /\ ld.pc = "clear_features"
  /\ FEATURES' = NoFeatures
  /\ ld' = [ld EXCEPT !.pc = "ret", !.ok = FALSE]
  /\ snaps' = Settled(<< NoRun, MODEL_VERSION, MODEL >>)
  /\ UNCHANGED << diskVars, MODEL, MODEL_VERSION, app, rq, unloaded, batchVars >>

\* lines 205-206: open(meta_path), json.load
ReadMeta ==
  /\ ld.pc = "read_meta"
  /\ ld' = IF Readable(metaFile)
             THEN [ld EXCEPT !.pc = "set_features", !.meta = metaFile.run]
             ELSE LdRaise(ld)
  /\ UNCHANGED << diskVars, memVars, app, rq, snaps, unloaded, batchVars >>

\* line 208
SetFeatures ==
  /\ ld.pc = "set_features"
  /\ FEATURES' = MetaFeatures(ld.meta)
  /\ ld' = [ld EXCEPT !.pc = "set_version"]
  /\ UNCHANGED << diskVars, MODEL, MODEL_VERSION, app, rq, snaps, unloaded, batchVars >>

\* line 209
SetVersion ==
  /\ ld.pc = "set_version"
  /\ MODEL_VERSION' = MetaVersion(ld.meta)
  /\ ld' = [ld EXCEPT !.pc = "load_model"]
  /\ UNCHANGED << diskVars, MODEL, FEATURES, app, rq, snaps, unloaded, batchVars >>

\* lines 210-219: MODEL = joblib.load(model_path), return True
LoadModel ==
  /\ ld.pc = "load_model"
  /\ IF Readable(modelFile)
       THEN /\ MODEL' = modelFile.run
            /\ ld' = [ld EXCEPT !.pc = "ret", !.ok = TRUE]
            /\ unloaded' = FALSE
       ELSE /\ UNCHANGED << MODEL, unloaded >>
            /\ ld' = LdRaise(ld)
  /\ snaps' = Settled(<< FEATURES.src, MODEL_VERSION, MODEL' >>)
  /\ UNCHANGED << diskVars, MODEL_VERSION, FEATURES, app, rq, batchVars >>

\* reload_model, lines 320-322
ReloadStatus(ok) == IF ok THEN 200 ELSE 500

\* try_load_model has returned to its caller (lines 224, 319-322)
LoadReturn ==
  /\ ld.pc = "ret"
  /\ ld' = [ld EXCEPT !.pc = "done", !.status = ReloadStatus(ld.ok),
                      !.version = IF ld.ok THEN MODEL_VERSION ELSE VersionNone]
  /\ unloaded' = IF ld.kind = "reload" /\ ~ld.ok THEN TRUE ELSE unloaded
  /\ UNCHANGED << diskVars, memVars, app, rq, snaps, batchVars >>

\* the caller is done: the service starts serving (or dies at startup), the
\* reload response is sent
LoadDone ==
  /\ ld.pc = "done"
  /\ ld' = LdIdle
  /\ app' = IF ld.kind = "startup"
              THEN (IF ld.raised THEN "crashed" ELSE "serving")
              ELSE app
  /\ UNCHANGED << diskVars, memVars, rq, snaps, unloaded, batchVars >>

\* ---------------------------------------------------------------- requests
Threshold == 50
ProbaLevels == {10, 50}

AllNames == Range(FeatureCols)

\* PredictRequest.features: omitted (resolve from the store) or a mapping
RequestBodies ==
  { [explicit |-> FALSE, names |-> {}],
    [explicit |-> TRUE, names |-> AllNames \cup {"extra"}],
    [explicit |-> TRUE, names |-> AllNames \ {"free_ratio", "wind_speed_10m"}],
    [explicit |-> TRUE, names |-> {}] }

RqIdle ==
  [pc |-> "idle", kind |-> "none", explicit |-> FALSE, names |-> {},
   gateModel |-> NoModel, gateUnloaded |-> FALSE, dbFailed |-> FALSE,
   feats |-> {}, validated |-> FALSE, schema |-> << >>,
   row |-> {}, rowSrc |-> NoRun, cols |-> {}, colsSrc |-> NoRun,
   scored |-> FALSE, scoredBy |-> NoModel, proba |-> 0, y |-> 0,
   logVer |-> VersionNone, logged |-> FALSE, logFailed |-> FALSE,
   backend |-> "none", explanation |-> "none", llm_used |-> FALSE,
   status |-> 0, detail |-> << >>, version |-> VersionNone,
   health |-> "none", model_loaded |-> FALSE, features |-> << >>,
   counted |-> << >>]

\* REQ_COUNT.labels(endpoint, status).inc(): the labels this request has
\* been counted under, in order
Count(r, code) == [r EXCEPT !.counted = Append(@, code)]

\* the handler's `except HTTPException` / `except Exception` arms of predict
\* and explain: the request is counted under its status and ends with it
RqFail(r, code, detail) ==
  [Count(r, code) EXCEPT !.pc = "done", !.status = code, !.detail = detail]

\* POST /predict, POST /explain, GET /health or GET /model arrives
RequestStart ==
  /\ app = "serving"
  /\ rq.pc = "idle"
  /\ \/ \E k \in {"predict", "explain"}, b \in RequestBodies :
          rq' = [RqIdle EXCEPT !.pc = "gate", !.kind = k,
                               !.explicit = b.explicit, !.names = b.names]
     \/ \E k \in {"health", "model"} :
          rq' = [RqIdle EXCEPT !.pc = k, !.kind = k]
  /\ snaps' = IF rq'.kind \in {"health", "model"} THEN {} ELSE {Quiet}
  /\ UNCHANGED << diskVars, memVars, app, ld, unloaded, batchVars >>

\* variant of GateStatus: 400 for 503
GateStatus_client(model) == IF model = NoModel THEN 400 ELSE 0

\* _prepare_row, lines 229-230
GateStatus(model) == IF model = NoModel THEN 503 ELSE 0

\* load_latest_features_from_db, lines 180-181: any failure of the read
\* (connection, empty table) is re-raised as RuntimeError, which the
\* handler's `except Exception` turns into this status
StoreFailureStatus == 500

\* variant of StoreFeatureNames: the weather features are not merged in
StoreFeatureNames_bikes == BikeFeatureNames

\* load_latest_features_from_db, lines 183-186
StoreFeatureNames == BikeFeatureNames \cup WeatherFeatureNames

\* _prepare_row, lines 229-232: the check of MODEL, then the feature
\* mapping, the request's own or the one resolved from the store
PrepareGate ==
  /\ rq.pc = "gate"
  /\ LET r == [rq EXCEPT !.gateModel = MODEL, !.gateUnloaded = unloaded]
     IN  IF GateStatus(MODEL) # 0
           THEN rq' = RqFail(r, GateStatus(MODEL), << >>)
           ELSE IF rq.explicit
             THEN rq' = [r EXCEPT !.pc = "missing", !.feats = rq.names]
             ELSE \E dbOk \in BOOLEAN :
                    rq' = IF dbOk
                            THEN [r EXCEPT !.pc = "missing", !.feats = StoreFeatureNames]
                            ELSE RqFail([r EXCEPT !.dbFailed = TRUE],
                                        StoreFailureStatus, << >>)
  /\ snaps' = Keep(3, MODEL)
  /\ UNCHANGED << diskVars, memVars, app, ld, unloaded, batchVars >>

\* variant of Missing: `in` for `not in`
Missing_present(features, feats) == SelectSeq(features, LAMBDA f : f \in feats)

\* _prepare_row, line 233
Missing(features, feats) == SelectSeq(features, LAMBDA f : f \notin feats)

\* _prepare_row, lines 233-235
ValidateFeatures ==
  /\ rq.pc = "missing"
  /\ LET r == [rq EXCEPT !.validated = TRUE, !.schema = FEATURES.names]
         missing == Missing(FEATURES.names, rq.feats)
     IN  rq' = IF missing # << >>
                 THEN RqFail(r, 400, missing)
                 ELSE [r EXCEPT !.pc = "row"]
  /\ UNCHANGED << diskVars, memVars, app, ld, snaps, unloaded, batchVars >>

\* _prepare_row, line 237: feats[f] for f in FEATURES (KeyError if absent)
BuildRow ==
  /\ rq.pc = "row"
  /\ rq' = IF Range(FEATURES.names) \subseteq rq.feats
             THEN [rq EXCEPT !.pc = "frame", !.row = Range(FEATURES.names),
                             !.rowSrc = FEATURES.src]
             ELSE RqFail(rq, 500, << >>)
  /\ snaps' = Keep(1, FEATURES.src)
  /\ UNCHANGED << diskVars, memVars, app, ld, unloaded, batchVars >>

\* _predict_from_row, line 241: pd.DataFrame([row], columns=FEATURES)
BuildFrame ==
  /\ rq.pc = "frame"
  /\ rq' = [rq EXCEPT !.pc = "score", !.cols = Range(FEATURES.names),
                      !.colsSrc = FEATURES.src]
  /\ snaps' = Keep(1, FEATURES.src)
  /\ UNCHANGED << diskVars, memVars, app, ld, unloaded, batchVars >>

\* MODEL.predict_proba(X_df): AttributeError on None; the fitted pipeline
\* selects its training columns by name and rejects missing values
CanScore(model, row, cols) ==
  /\ model # NoModel
  /\ AllNames \subseteq (row \cap cols)

\* _predict_from_row, lines 242-244
PredictFromRow ==
  /\ rq.pc = "score"
  /\ LET r == [rq EXCEPT !.scored = TRUE, !.scoredBy = MODEL]
     IN  IF CanScore(MODEL, rq.row, rq.cols)
           THEN \E p \in ProbaLevels :
                  rq' = [r EXCEPT !.pc = IF rq.kind = "predict" THEN "log" ELSE "llm",
                                  !.proba = p,
                                  !.y = IF p >= Threshold THEN 1 ELSE 0]
           ELSE rq' = RqFail(r, 500, << >>)
  /\ snaps' = Keep(3, MODEL)
  /\ UNCHANGED << diskVars, memVars, app, ld, unloaded, batchVars >>

\* variant of LogOutcome: a failed insert ends the request
LogOutcome_raise(r, ok, ver) ==
  IF ok THEN [r EXCEPT !.pc = "respond", !.logged = TRUE, !.logVer = ver]
        ELSE RqFail([r EXCEPT !.logFailed = TRUE], 500, << >>)

\* lines 343-355: the row is committed with the version read at line 351, or
\* the exception is caught and logged as a warning
LogOutcome(r, ok, ver) ==
  [r EXCEPT !.pc = "respond", !.logged = ok, !.logFailed = ~ok,
            !.logVer = IF ok THEN ver ELSE VersionNone]

\* predict, lines 343-355: the prediction_log insert, failures swallowed
LogPrediction ==
  /\ rq.pc = "log"
  /\ \E ok \in BOOLEAN : rq' = LogOutcome(rq, ok, MODEL_VERSION)
  /\ UNCHANGED << diskVars, memVars, app, ld, snaps, unloaded, batchVars >>

\* what the remote backend does with one call: no key is configured (or the
\* client library is missing), the client raises (client error, timeout,
\* authentication error), it answers with an empty text, it answers with a text
BackendOutcomes == {"nokey", "raised", "empty", "text"}

\* the calls that give no usable answer
BackendFailed(outcome) == outcome \in {"nokey", "raised", "empty"}

\* variant of LlmAnswer: an empty answer is returned as the backend's
LlmAnswer_empty(outcome) ==
  IF outcome \in {"text", "empty"}
    THEN [explanation |-> outcome, llm_used |-> TRUE]
    ELSE [explanation |-> "fallback", llm_used |-> FALSE]

\* _llm_explain, lines 258-297: (text, True) only for a non-empty answer;
\* lines 259-260 and 295-297 return (_fallback_explanation(...), False)
LlmAnswer(outcome) ==
  IF outcome = "text"
    THEN [explanation |-> "text", llm_used |-> TRUE]
    ELSE [explanation |-> "fallback", llm_used |-> FALSE]

\* _fallback_explanation, lines 247-254: row[k] for k in FEATURES[:8]
FallbackRenders(features, row) == Range(features) \subseteq row

\* explain, line 376: _llm_explain answers with the backend's text or with
\* the templated fallback
LlmExplain ==
  /\ rq.pc = "llm"
  /\ \E outcome \in BackendOutcomes :
       LET a == LlmAnswer(outcome)
           r == [rq EXCEPT !.backend = IF BackendFailed(outcome) THEN "failed"
                                                                  ELSE "answered"]
       IN  rq' = IF a.explanation = "fallback" /\ ~FallbackRenders(FEATURES.names, rq.row)
                   THEN RqFail(r, 500, << >>)
                   ELSE [r EXCEPT !.pc = "respond", !.explanation = a.explanation,
                                  !.llm_used = a.llm_used]
  /\ UNCHANGED << diskVars, memVars, app, ld, snaps, unloaded, batchVars >>

\* predict, lines 357-358; explain, lines 378-385
Respond ==
  /\ rq.pc = "respond"
  /\ rq' = [Count(rq, 200) EXCEPT !.pc = "done", !.status = 200,
                                  !.version = MODEL_VERSION]
  /\ snaps' = Keep(2, MODEL_VERSION)
  /\ UNCHANGED << diskVars, memVars, app, ld, unloaded, batchVars >>

\* the response has been sent
RequestDone ==
  /\ rq.pc = "done"
  /\ rq' = RqIdle
  /\ snaps' = {}
  /\ UNCHANGED << diskVars, memVars, app, ld, unloaded, batchVars >>

\* ------------------------------------------------------------------ probes
\* GET /health, lines 300-307
Health ==
  /\ rq.pc = "health"
  /\ rq' = [rq EXCEPT !.pc = "done", !.status = 200, !.health = "ok",
                      !.version = MODEL_VERSION,
                      !.gateModel = MODEL,
                      !.model_loaded = (MODEL # NoModel),
                      !.gateUnloaded = unloaded]
  /\ UNCHANGED << diskVars, memVars, app, ld, snaps, unloaded, batchVars >>

\* GET /model, lines 310-314
ModelInfo ==
  /\ rq.pc = "model"
  /\ LET r == [rq EXCEPT !.gateModel = MODEL,
                         !.gateUnloaded = unloaded]
     IN  rq' = IF MODEL = NoModel
                 THEN [r EXCEPT !.pc = "done", !.status = 503]
                 ELSE [r EXCEPT !.pc = "done", !.status = 200,
                                !.version = MODEL_VERSION,
                                !.features = FEATURES.names]
  /\ UNCHANGED << diskVars, memVars, app, ld, snaps, unloaded, batchVars >>

\* --------------------------------------------------------------- ingestion
\* collector.py.  One process, started with --once or with --loop; a cycle is
\* one call of run_once.
MaxCycles == 3

IngOff ==
  [mode |-> "none", pc |-> "off", cycle |-> 0, failed |-> FALSE, cause |-> "none",
   failures |-> 0, logged |-> 0, slept |-> 0,
   tx |-> [raw_bikes |-> 0, raw_weather |-> 0],
   before |-> [raw_bikes |-> 0, raw_weather |-> 0], exit |-> "none"]

\* main, lines 78-85, about to call run_once for the first time
IngMain(mode) == [IngOff EXCEPT !.mode = mode, !.pc = "call", !.exit = "running"]

EmptyStore == [raw_bikes |-> 0, raw_weather |-> 0]
NoTx == [raw_bikes |-> 0, raw_weather |-> 0]

\* variant of IngRaise: no try/except around run_once in the loop
IngRaise_fatal(r, cause) ==
  [r EXCEPT !.pc = "exited", !.exit = "error", !.failed = TRUE, !.cause = cause,
            !.failures = @ + 1, !.tx = NoTx]

\* an exception leaves run_once (the connection's context manager has rolled
\* the open transaction back): with --once it leaves main and the process
\* ends with an error (lines 78-80), with --loop the `except Exception` of
\* line 86 takes it
IngRaise(r, cause) ==
  IF r.mode = "loop"
    THEN [r EXCEPT !.pc = "except", !.failed = TRUE, !.cause = cause,
                   !.failures = @ + 1, !.tx = NoTx]
    ELSE [r EXCEPT !.pc = "exited", !.exit = "error", !.failed = TRUE,
                   !.cause = cause, !.failures = @ + 1, !.tx = NoTx]

\* lines 79 and 85: run_once is called
IngRunOnce ==
  /\ ing.pc = "call"
  /\ ing.cycle < MaxCycles
  /\ ing' = [ing EXCEPT !.pc = "config", !.cycle = @ + 1, !.failed = FALSE,
                        !.cause = "none", !.before = store]
  /\ UNCHANGED << serveVars, store, fx, jn, lb, tm >>

\* run_once, lines 55-57: BIKE_NETWORK_ID, float(LAT), float(LON)
IngConfig ==
  /\ ing.pc = "config"
  /\ \E ok \in BOOLEAN :
       ing' = IF ok THEN [ing EXCEPT !.pc = "fetch_bikes"] ELSE IngRaise(ing, "config")
  /\ UNCHANGED << serveVars, store, fx, jn, lb, tm >>

\* run_once, line 59: fetch_bikes (timeout 15 s, raise_for_status)
IngFetchBikes ==
  /\ ing.pc = "fetch_bikes"
  /\ \E ok \in BOOLEAN :
       ing' = IF ok THEN [ing EXCEPT !.pc = "fetch_weather"] ELSE IngRaise(ing, "fetch")
  /\ UNCHANGED << serveVars, store, fx, jn, lb, tm >>

\* run_once, line 60: fetch_weather
IngFetchWeather ==
  /\ ing.pc = "fetch_weather"
  /\ \E ok \in BOOLEAN :
       ing' = IF ok THEN [ing EXCEPT !.pc = "connect"] ELSE IngRaise(ing, "fetch")
  /\ UNCHANGED << serveVars, store, fx, jn, lb, tm >>

\* run_once, line 62: get_pg_conn
IngConnect ==
  /\ ing.pc = "connect"
  /\ \E ok \in BOOLEAN :
       ing' = IF ok THEN [ing EXCEPT !.pc = "insert_bikes"] ELSE IngRaise(ing, "store")
  /\ UNCHANGED << serveVars, store, fx, jn, lb, tm >>

\* variant of IngInsertBikes: the connection is in autocommit mode, the row
\* is in the table as soon as it is inserted
IngInsertBikes_autocommit ==
  /\ ing.pc = "insert_bikes"
  /\ \E ok \in BOOLEAN :
       IF ok
         THEN /\ store' = [store EXCEPT !.raw_bikes = @ + 1]
              /\ ing' = [ing EXCEPT !.pc = "insert_weather"]
         ELSE /\ store' = store
              /\ ing' = IngRaise(ing, "store")
  /\ UNCHANGED << serveVars, fx, jn, lb, tm >>

\* run_once, line 64: INSERT INTO raw_bikes, in the open transaction
IngInsertBikes ==
  /\ ing.pc = "insert_bikes"
  /\ \E ok \in BOOLEAN :
       ing' = IF ok THEN [ing EXCEPT !.pc = "insert_weather", !.tx.raw_bikes = @ + 1]
                    ELSE IngRaise(ing, "store")
  /\ UNCHANGED << serveVars, store, fx, jn, lb, tm >>

\* run_once, line 65: INSERT INTO raw_weather, in the open transaction
IngInsertWeather ==
  /\ ing.pc = "insert_weather"
  /\ \E ok \in BOOLEAN :
       ing' = IF ok THEN [ing EXCEPT !.pc = "commit", !.tx.raw_weather = @ + 1]
                    ELSE IngRaise(ing, "store")
  /\ UNCHANGED << serveVars, store, fx, jn, lb, tm >>

\* run_once, line 66: conn.commit().  The transaction's rows reach the tables
\* together or not at all; when the call raises (the connection was lost) the
\* server has rolled the transaction back or has committed it unacknowledged
IngCommit ==
  /\ ing.pc = "commit"
  /\ \E outcome \in {"committed", "rolled_back", "unacknowledged"} :
       /\ store' = IF outcome = "rolled_back" THEN store
                   ELSE [raw_bikes |-> store.raw_bikes + ing.tx.raw_bikes,
                         raw_weather |-> store.raw_weather + ing.tx.raw_weather]
       /\ ing' = IF outcome = "committed" THEN [ing EXCEPT !.pc = "ok", !.tx = NoTx]
                                          ELSE IngRaise(ing, "commit")
  /\ UNCHANGED << serveVars, fx, jn, lb, tm >>

\* run_once, line 68, and the return to main: with --once main returns
\* (line 80), with --loop it goes on to the sleep
IngReturn ==
  /\ ing.pc = "ok"
  /\ ing' = IF ing.mode = "loop"
              THEN [ing EXCEPT !.pc = "sleep"]
              ELSE [ing EXCEPT !.pc = "exited", !.exit = "ok"]
  /\ UNCHANGED << serveVars, store, fx, jn, lb, tm >>

\* variant of IngLogError: the failed cycle is retried at once
IngLogError_retry ==
  /\ ing.pc = "except"
  /\ ing' = [ing EXCEPT !.pc = "call", !.logged = @ + 1]
  /\ UNCHANGED << serveVars, store, fx, jn, lb, tm >>

\* main, lines 86-87: the failure is printed
IngLogError ==
  /\ ing.pc = "except"
  /\ ing' = [ing EXCEPT !.pc = "sleep", !.logged = @ + 1]
  /\ UNCHANGED << serveVars, store, fx, jn, lb, tm >>

\* main, line 88: time.sleep(args.sleep) returns, the loop goes round
IngSleep ==
  /\ ing.pc = "sleep"
  /\ ing' = [ing EXCEPT !.pc = "call", !.slept = @ + 1]
  /\ UNCHANGED << serveVars, store, fx, jn, lb, tm >>

\* ------------------------------------------------------ feature extraction
\* JSON values as the extractors receive them: null, a number, an array, an
\* object (a function from its keys to values)
JNull == [t |-> "null"]
JNum(n) == [t |-> "num", n |-> n]
JArr(s) == [t |-> "arr", items |-> s]
JObj(f) == [t |-> "obj", fields |-> f]
EmptyMap == [k \in {} |-> JNull]

MaxStations == 2
MaxCount == 2
WeatherReadings == {0, 7}

\* every object with keys among `keys` and values among `vals`
Objects(keys, vals) == UNION {[K -> vals] : K \in SUBSET keys}

Counts == {JNull} \cup {JNum(n) : n \in 0..MaxCount}
StationObjects == {JObj(f) : f \in Objects({"free_bikes", "empty_slots"}, Counts)}
StationLists == UNION {[1..n -> StationObjects] : n \in 0..MaxStations}
NetworkObjects ==
  {JObj(f) : f \in Objects({"stations"}, {JNull} \cup {JArr(s) : s \in StationLists})}

\* payloads of raw_bikes: a mapping in which network, stations and every
\* station's counts may each be absent or null
BikePayloads == {JObj(f) : f \in Objects({"network"}, {JNull} \cup NetworkObjects)}

CurrentObjects ==
  {JObj(f) : f \in Objects({"temperature_2m", "precipitation", "wind_speed_10m"},
                           {JNull} \cup {JNum(n) : n \in WeatherReadings})}

\* payloads of raw_weather: a mapping in which current and every field of it
\* may each be absent or null
WeatherPayloads == {JObj(f) : f \in Objects({"current"}, {JNull} \cup CurrentObjects)}

\* payloads that are no mapping at all
NonMappings == {JNull, JArr(<< >>), JNum(1)}

\* dict.get(key, default)
PyGet(obj, key, default) == IF key \in DOMAIN obj.fields THEN obj.fields[key] ELSE default

\* Python truthiness and `x or d`
Falsy(x) ==
  \/ x.t = "null"
  \/ x.t = "num" /\ x.n = 0
  \/ x.t = "arr" /\ x.items = << >>
  \/ x.t = "obj" /\ DOMAIN x.fields = {}
PyOr(x, d) == IF Falsy(x) THEN d ELSE x

\* the outcome of a call: an exception, or the returned mapping
Raised == [raised |-> TRUE]
Returned(m) == [raised |-> FALSE, v |-> m]

\* a quotient of two floats, kept as the pair it was computed from
Ratio(n, d) == [num |-> n, den |-> d]
ZeroRatio == Ratio(0, 1)

\* the loop of lines 50-56 for one of the two counts: s.get(key), added when
\* it is not None
RECURSIVE SumCount(_, _)
SumCount(stations, key) ==
  IF stations = << >> THEN 0
  ELSE LET c == PyGet(Head(stations), key, JNull)
       IN  (IF c.t = "null" THEN 0 ELSE c.n) + SumCount(Tail(stations), key)

\* variant of TotalSlots: the empty slots are left out
TotalSlots_free(free, empty) == free

\* train.py line 58
TotalSlots(free, empty) == free + empty

\* train.py line 59
FreeRatio(free, total) == IF total > 0 THEN Ratio(free, total) ELSE ZeroRatio

\* train.py lines 44-67.  .get on anything but a dict raises AttributeError,
\* iterating anything but a list of dicts raises
bikes_features(payload) ==
  IF payload.t # "obj" THEN Raised
  ELSE LET network == PyGet(payload, "network", JObj(EmptyMap))
       IN  IF network.t # "obj" THEN Raised
           ELSE LET stations == PyOr(PyGet(network, "stations", JArr(<< >>)), JArr(<< >>))
                IN  IF stations.t # "arr" \/ \E i \in DOMAIN stations.items : stations.items[i].t # "obj"
                      THEN Raised
                      ELSE LET free == SumCount(stations.items, "free_bikes")
                               empty == SumCount(stations.items, "empty_slots")
                               total == TotalSlots(free, empty)
                           IN  Returned([stations_count |-> Len(stations.items),
                                         free_bikes |-> free,
                                         empty_slots |-> empty,
                                         total_slots |-> total,
                                         free_ratio |-> FreeRatio(free, total)])

\* float(cur.get(key, 0.0) or 0.0)
Reading(cur, key) == PyOr(PyGet(cur, key, JNum(0)), JNum(0)).n

\* train.py lines 70-76
weather_features(payload) ==
  IF payload.t # "obj" THEN Raised
  ELSE LET cur == PyOr(PyGet(payload, "current", JObj(EmptyMap)), JObj(EmptyMap))
       IN  IF cur.t # "obj" THEN Raised
           ELSE Returned([temp_2m |-> Reading(cur, "temperature_2m"),
                          precipitation |-> Reading(cur, "precipitation"),
                          wind_speed_10m |-> Reading(cur, "wind_speed_10m")])

\* main.py lines 137-141
RECURSIVE ServingSumCount(_, _)
ServingSumCount(stations, key) ==
  IF stations = << >> THEN 0
  ELSE LET c == PyGet(Head(stations), key, JNull)
       IN  (IF c.t = "null" THEN 0 ELSE c.n) + ServingSumCount(Tail(stations), key)

\* variant of serving_bikes_features: a null network is read as no network
\* (`or {}` added to line 129 of this copy only)
serving_bikes_features_nullsafe(payload) ==
  IF payload.t # "obj" THEN Raised
  ELSE bikes_features(JObj([network |-> PyOr(PyGet(payload, "network", JObj(EmptyMap)),
                                              JObj(EmptyMap))]))

\* main.py lines 128-149
serving_bikes_features(payload) ==
  IF payload.t # "obj" THEN Raised
  ELSE LET network == PyGet(payload, "network", JObj(EmptyMap))
       IN  IF network.t # "obj" THEN Raised
           ELSE LET stations == PyOr(PyGet(network, "stations", JArr(<< >>)), JArr(<< >>))
                IN  IF stations.t # "arr" \/ \E i \in DOMAIN stations.items : stations.items[i].t # "obj"
                      THEN Raised
                      ELSE LET free == ServingSumCount(stations.items, "free_bikes")
                               empty == ServingSumCount(stations.items, "empty_slots")
                               total == free + empty
                           IN  Returned([stations_count |-> Len(stations.items),
                                         free_bikes |-> free,
                                         empty_slots |-> empty,
                                         total_slots |-> total,
                                         free_ratio |-> IF total > 0 THEN Ratio(free, total)
                                                                     ELSE ZeroRatio])

\* main.py lines 152-158
serving_weather_features(payload) ==
  IF payload.t # "obj" THEN Raised
  ELSE LET cur == PyOr(PyGet(payload, "current", JObj(EmptyMap)), JObj(EmptyMap))
       IN  IF cur.t # "obj" THEN Raised
           ELSE Returned([temp_2m |-> PyOr(PyGet(cur, "temperature_2m", JNum(0)), JNum(0)).n,
                          precipitation |-> PyOr(PyGet(cur, "precipitation", JNum(0)), JNum(0)).n,
                          wind_speed_10m |-> PyOr(PyGet(cur, "wind_speed_10m", JNum(0)), JNum(0)).n])

FxOff == [pc |-> "off", svc |-> "none", kind |-> "none", payload |-> JNull, out |-> JNull]

\* the calls made: the trainer's or the inference service's extractor, on a
\* payload of its table or on something that is no mapping
FxCalls ==
  {[pc |-> "call", svc |-> s, kind |-> "bikes", payload |-> p, out |-> JNull] :
      s \in {"trainer", "inference"}, p \in BikePayloads \cup NonMappings}
  \cup
  {[pc |-> "call", svc |-> s, kind |-> "weather", payload |-> p, out |-> JNull] :
      s \in {"trainer", "inference"}, p \in WeatherPayloads \cup NonMappings}

\* bikes_features(payload) is called
ExtractBikes ==
  /\ fx.pc = "call" /\ fx.kind = "bikes"
  /\ fx' = [fx EXCEPT !.pc = "returned",
                      !.out = IF fx.svc = "trainer" THEN bikes_features(fx.payload)
                                                    ELSE serving_bikes_features(fx.payload)]
  /\ UNCHANGED << serveVars, ing, store, jn, lb, tm >>

\* weather_features(payload) is called
ExtractWeather ==
  /\ fx.pc = "call" /\ fx.kind = "weather"
  /\ fx' = [fx EXCEPT !.pc = "returned",
                      !.out = IF fx.svc = "trainer" THEN weather_features(fx.payload)
                                                    ELSE serving_weather_features(fx.payload)]
  /\ UNCHANGED << serveVars, ing, store, jn, lb, tm >>

\* --------------------------------------------------------- dataset builder
\* load_raw_from_db, train.py lines 79-110.  Time in minutes.
MaxBikeRows == 2
MaxWeatherRows == 2
Tolerance == 30
Times == {0, 1, 31, 32}

ZeroWeather == [temp_2m |-> 0, precipitation |-> 0, wind_speed_10m |-> 0]
WeatherVectors ==
  { [temp_2m |-> 7, precipitation |-> 0, wind_speed_10m |-> 7],
    [temp_2m |-> 0, precipitation |-> 7, wind_speed_10m |-> 0] }

\* the feature rows of the two tables
BikeRows == {[ingested_at |-> t] : t \in Times}
WeatherRows == {[ingested_at |-> t, weather |-> w] : t \in Times, w \in WeatherVectors}

IsSorted(s) == \A i, j \in DOMAIN s : i < j => s[i].ingested_at <= s[j].ingested_at

\* what ORDER BY ingested_at ASC can return from a table that holds rows
\* (every committed ingestion cycle writes one row to each table): rows with
\* equal keys in any order
Ordered(rows, maxLen) ==
  {s \in UNION {[1..n -> rows] : n \in 1..maxLen} : IsSorted(s)}

Reorderings(s) ==
  {[i \in DOMAIN s |-> s[p[i]]] : p \in {q \in [DOMAIN s -> DOMAIN s] :
                                            \A i, j \in DOMAIN s : i # j => q[i] # q[j]}}

\* lines 99-100, sort_values("ingested_at"): the default sort is not stable,
\* rows with equal keys come out in any order
SortValues(s) == {p \in Reorderings(s) : IsSorted(p)}

\* variant of WithinTolerance: the bound itself is excluded
WithinTolerance_strict(gap) == gap < Tolerance

\* line 107: tolerance = 30 min, bound included
WithinTolerance(gap) == gap <= Tolerance

\* merge_asof(direction = "backward"): the position in the right frame of the
\* last row whose key is at or before t, 0 when there is none or when that
\* row is further back than the tolerance
AsOfMatch(t, right) ==
  LET before == {j \in DOMAIN right : right[j].ingested_at <= t}
      last == CHOOSE j \in before : \A k \in before : k <= j
  IN  IF before = {} THEN 0
      ELSE IF WithinTolerance(t - right[last].ingested_at) THEN last ELSE 0

\* lines 102-108: the merged frame, the unmatched rows' weather columns (NaN)
\* filled with 0.0
MergeAsof(left, right) ==
  [i \in DOMAIN left |->
     LET j == AsOfMatch(left[i].ingested_at, right)
     IN  [ingested_at |-> left[i].ingested_at,
          weather |-> IF j = 0 THEN ZeroWeather ELSE right[j].weather]]

JnOff ==
  [pc |-> "off", bikes |-> << >>, weather |-> << >>, merged |-> << >>,
   served |-> [ingested_at |-> 0, weather |-> ZeroWeather]]

\* the tables as the two queries of lines 81-88 return them
JnCalls ==
  {[JnOff EXCEPT !.pc = "call", !.bikes = b, !.weather = w] :
      b \in Ordered(BikeRows, MaxBikeRows), w \in Ordered(WeatherRows, MaxWeatherRows)}

\* load_raw_from_db runs
LoadRawFromDb ==
  /\ jn.pc = "call"
  /\ \E bikes_df \in SortValues(jn.bikes), weather_df \in SortValues(jn.weather) :
       jn' = [jn EXCEPT !.pc = "returned", !.merged = MergeAsof(bikes_df, weather_df)]
  /\ UNCHANGED << serveVars, ing, store, fx, lb, tm >>

\* main.py lines 166 and 174, ORDER BY ingested_at DESC LIMIT 1: the position
\* of a row none is later than
Latest(rows) ==
  {i \in DOMAIN rows : \A j \in DOMAIN rows : rows[j].ingested_at <= rows[i].ingested_at}

\* main.py load_latest_features_from_db, lines 161-186, on the tables the
\* frame was built from: the features of the latest bike row and of the
\* latest weather row in one mapping, or RuntimeError("DB read failed")
LoadLatestFeaturesFromDb ==
  /\ jn.pc = "returned"
  /\ \/ \E i \in Latest(jn.bikes), j \in Latest(jn.weather) :
          jn' = [jn EXCEPT !.pc = "resolved",
                           !.served = [ingested_at |-> jn.bikes[i].ingested_at,
                                       weather |-> jn.weather[j].weather]]
     \/ jn' = [jn EXCEPT !.pc = "db_failed"]
  /\ UNCHANGED << serveVars, ing, store, fx, lb, tm >>

\* -------------------------------------------------------------- label rule
\* train.py main, lines 236-238.  free_ratio in thousandths.
MaxFrame == 5
RatioValues == {100, 200, 300, 900}
Frames == UNION {[1..n -> RatioValues] : n \in 1..MaxFrame}

\* Series.quantile(0.20), linear interpolation: position 0.20 * (n - 1) in the
\* sorted values, the fraction taken between the two neighbours
Quantile20(values) ==
  LET sorted == SortSeq(values, LAMBDA a, b : a < b)
      n == Len(values)
      lo == ((n - 1) \div 5) + 1
      fifths == (n - 1) % 5
  IN  IF fifths = 0 THEN sorted[lo]
      ELSE sorted[lo] + (fifths * (sorted[lo + 1] - sorted[lo])) \div 5

\* variant of Below: `<=` for `<`
Below_orEqual(x, thr) == x <= thr

\* line 238: fr < thr
Below(x, thr) == x < thr

\* line 238: (fr < thr).astype(int)
Labels(values, thr) == [i \in DOMAIN values |-> IF Below(values[i], thr) THEN 1 ELSE 0]

LbOff == [pc |-> "off", free_ratio |-> << >>, thr |-> 0, y |-> << >>]

LbCalls == {[pc |-> "call", free_ratio |-> f, thr |-> 0, y |-> << >>] : f \in Frames}

\* lines 236-238 run on the frame
LabelRows ==
  /\ lb.pc = "call"
  /\ LET thr == Quantile20(lb.free_ratio)
     IN  lb' = [lb EXCEPT !.pc = "labelled", !.thr = thr,
                          !.y = Labels(lb.free_ratio, thr)]
  /\ UNCHANGED << serveVars, ing, store, fx, jn, tm >>

\* ------------------------------------------------------------ trainer main
\* train.py main, lines 217-241: one run of the trainer, with --synthetic or
\* on the frame load_raw_from_db returns.  Thresholds in thousandths.
MaxRows == 21
MaxSamples == 2
MinRows == 20
DefaultSamples == 400
SyntheticThreshold == 300

TmOff ==
  [pc |-> "off", mode |-> "none", n |-> 0, pos |-> 0,
   target |-> [rule_name |-> "none", threshold |-> 0],
   run |-> NoRun, exit |-> "none", error |-> "none"]

\* the command lines: --synthetic --n-samples n, or none of them with n rows
\* of raw_bikes in the store
TmCalls ==
  {[TmOff EXCEPT !.pc = "main", !.mode = "synthetic", !.n = n, !.exit = "running"] :
      n \in (0..MaxSamples) \cup {DefaultSamples}}
  \cup
  {[TmOff EXCEPT !.pc = "main", !.mode = "db", !.n = n, !.exit = "running"] :
      n \in 0..MaxRows}

\* the process ends with a non-zero status: SystemExit with its message, or
\* an exception nothing catches
TmDie(r, error) == [r EXCEPT !.pc = "exited", !.exit = "error", !.error = error]

\* variant of SyntheticTarget: the rule of the other mode is recorded
SyntheticTarget_q20 == [rule_name |-> "q20", threshold |-> SyntheticThreshold]

\* make_synthetic_df, lines 144-146
SyntheticTarget == [rule_name |-> "synthetic_fixed", threshold |-> SyntheticThreshold]

\* lines 224-225: make_synthetic_df(args.n_samples).  Half of the rows are
\* drawn around 0.08 and half around 0.65 (lines 117-120), 7 and 3.5 standard
\* deviations from the threshold: the first half is taken to be labelled 1
MainSynthetic ==
  /\ tm.pc = "main" /\ tm.mode = "synthetic"
  /\ tm' = [tm EXCEPT !.pc = "train", !.pos = tm.n \div 2, !.target = SyntheticTarget]
  /\ UNCHANGED << serveVars, ing, store, fx, jn, lb >>

\* line 229: load_raw_from_db returns the frame, one row per row of
\* raw_bikes, or raises (the store is down, a payload makes an extractor raise)
MainLoadRaw ==
  /\ tm.pc = "main" /\ tm.mode = "db"
  /\ \E ok \in BOOLEAN :
       tm' = IF ok THEN [tm EXCEPT !.pc = "guard"] ELSE TmDie(tm, "exception")
  /\ UNCHANGED << serveVars, ing, store, fx, jn, lb >>

\* variant of TooFewRows: `<=` for `<`
TooFewRows_orEqual(n) == n <= MinRows

\* line 230: len(df) < 20
TooFewRows(n) == n < MinRows

\* lines 230-233: raise SystemExit("[ERROR] Not enough samples in DB ...")
MainGuard ==
  /\ tm.pc = "guard"
  /\ tm' = IF TooFewRows(tm.n) THEN TmDie(tm, "not_enough_samples")
                               ELSE [tm EXCEPT !.pc = "label"]
  /\ UNCHANGED << serveVars, ing, store, fx, jn, lb >>

\* lines 236-239: the q20 rule.  The rows strictly below the 20th percentile
\* of n values are at most ceil(0.2 * (n - 1)), and none when the smallest
\* values are equal
MainLabel ==
  /\ tm.pc = "label"
  /\ \E pos \in 0..((tm.n + 3) \div 5), thr \in RatioValues :
       tm' = [tm EXCEPT !.pc = "train", !.pos = pos,
                        !.target = [rule_name |-> "q20", threshold |-> thr]]
  /\ UNCHANGED << serveVars, ing, store, fx, jn, lb >>

\* lines 160-179 on n rows of which pos are labelled 1.  train_test_split
\* (test_size = 0.25) holds ceil(0.25 * n) rows out and trains on the others;
\* it raises on an empty training part and, when stratified (line 164: both
\* classes have 2 rows or more), on a part smaller than the number of
\* classes; LogisticRegression.fit raises when the training part holds one
\* class only, which without stratification the shuffle decides
FitOutcomes(n, pos) ==
  LET neg == n - pos
      test == (n + 3) \div 4
      train == n - test
  IN  IF train < 2 THEN {"raise"}
      ELSE IF pos >= 2 /\ neg >= 2
        THEN IF test < 2 THEN {"raise"} ELSE {"ok"}
        ELSE IF pos = 0 \/ neg = 0 THEN {"raise"} ELSE {"ok", "raise"}

\* train_and_save, lines 150-190: the split, the fit, the evaluation and
\* model_version; the writes of lines 196-210 follow
MainTrainAndSave ==
  /\ tm.pc = "train"
  /\ trainer.pc = "idle"
  /\ \E outcome \in FitOutcomes(tm.n, tm.pos) :
       IF outcome = "ok"
         THEN /\ runs' = runs + 1
              /\ trainer' = [pc |-> "dump_model", run |-> runs + 1]
              /\ tm' = [tm EXCEPT !.pc = "saving", !.run = runs + 1]
         ELSE /\ tm' = TmDie(tm, "exception")
              /\ UNCHANGED << runs, trainer >>
  /\ UNCHANGED << modelFile, metricsFile, metaFile, memVars, app, ld, rq, snaps,
                  unloaded, ing, store, fx, jn, lb >>

\* lines 212-214 and the return from main (lines 227, 241)
MainReturn ==
  /\ tm.pc = "saving"
  /\ trainer.pc = "idle"
  /\ tm' = [tm EXCEPT !.pc = "exited", !.exit = "ok"]
  /\ UNCHANGED << serveVars, ing, store, fx, jn, lb >>

\* ----------------------------------------------------------- specification
\* the inference service not started, no artifact on disk
ServiceDown ==
  /\ modelFile = Absent
  /\ metricsFile = Absent
  /\ metaFile = Absent
  /\ trainer = TrainerIdle
  /\ runs = 0
  /\ MODEL = NoModel
  /\ MODEL_VERSION = VersionNone
  /\ FEATURES = NoFeatures
  /\ app = "init"
  /\ ld = LdIdle
  /\ rq = RqIdle
  /\ snaps = {}
  /\ unloaded = FALSE

Init ==
  /\ ServiceDown
  /\ ing = IngOff
  /\ store = EmptyStore
  /\ fx = FxOff
  /\ jn = JnOff
  /\ lb = LbOff
  /\ tm = TmOff

Next ==
  \/ TrainStart
  \/ DumpModelOpen
  \/ DumpModelWrite
  \/ WriteMetricsOpen
  \/ WriteMetricsWrite
  \/ WriteMetaOpen
  \/ WriteMetaWrite
  \/ TrainFail
  \/ RemoveArtifacts
  \/ RemoveModelFile
  \/ OnStartup
  \/ ReloadStart
  \/ LoadCheck
  \/ ClearModel
  \/ ClearVersion
  \/ ClearFeatures
  \/ ReadMeta
  \/ SetFeatures
  \/ SetVersion
  \/ LoadModel
  \/ LoadReturn
  \/ LoadDone
  \/ RequestStart
  \/ PrepareGate
  \/ ValidateFeatures
  \/ BuildRow
  \/ BuildFrame
  \/ PredictFromRow
  \/ LogPrediction
  \/ LlmExplain
  \/ Respond
  \/ RequestDone
  \/ Health
  \/ ModelInfo

Spec == Init /\ [][Next]_vars

\* the ingestion process alone, started with --once or with --loop
InitIngest ==
  /\ ServiceDown
  /\ ing \in {IngMain("once"), IngMain("loop")}
  /\ store = EmptyStore
  /\ fx = FxOff
  /\ jn = JnOff
  /\ lb = LbOff
  /\ tm = TmOff

NextIngest ==
  \/ IngRunOnce
  \/ IngConfig
  \/ IngFetchBikes
  \/ IngFetchWeather
  \/ IngConnect
  \/ IngInsertBikes
  \/ IngInsertWeather
  \/ IngCommit
  \/ IngReturn
  \/ IngLogError
  \/ IngSleep

SpecIngest == InitIngest /\ [][NextIngest]_vars

\* the process is one sequential thread and each of its steps ends (the
\* fetches time out after 15 s, the sleep is finite): it keeps taking steps
FairIngest == SpecIngest /\ WF_vars(NextIngest)

\* one call of a feature extractor on one payload
InitFeatures ==
  /\ ServiceDown
  /\ ing = IngOff
  /\ store = EmptyStore
  /\ fx \in FxCalls
  /\ jn = JnOff
  /\ lb = LbOff
  /\ tm = TmOff

NextFeatures ==
  \/ ExtractBikes
  \/ ExtractWeather

SpecFeatures == InitFeatures /\ [][NextFeatures]_vars

\* one call of load_raw_from_db on one content of the two tables, then one
\* call of the service's load_latest_features_from_db on the same
InitJoin ==
  /\ ServiceDown
  /\ ing = IngOff
  /\ store = EmptyStore
  /\ fx = FxOff
  /\ jn \in JnCalls
  /\ lb = LbOff
  /\ tm = TmOff

NextJoin ==
  \/ LoadRawFromDb
  \/ LoadLatestFeaturesFromDb

SpecJoin == InitJoin /\ [][NextJoin]_vars

\* one application of the label rule to one free_ratio column
InitLabel ==
  /\ ServiceDown
  /\ ing = IngOff
  /\ store = EmptyStore
  /\ fx = FxOff
  /\ jn = JnOff
  /\ lb \in LbCalls
  /\ tm = TmOff

NextLabel == LabelRows

SpecLabel == InitLabel /\ [][NextLabel]_vars

\* one run of the trainer, into an artifact directory that is empty or holds
\* the files of an earlier run
InitTrain ==
  /\ \/ /\ runs = 0
        /\ modelFile = Absent /\ metricsFile = Absent /\ metaFile = Absent
     \/ /\ runs = 1
        /\ modelFile = Complete(1) /\ metricsFile = Complete(1) /\ metaFile = Complete(1)
  /\ trainer = TrainerIdle
  /\ MODEL = NoModel
  /\ MODEL_VERSION = VersionNone
  /\ FEATURES = NoFeatures
  /\ app = "init"
  /\ ld = LdIdle
  /\ rq = RqIdle
  /\ snaps = {}
  /\ unloaded = FALSE
  /\ ing = IngOff
  /\ store = EmptyStore
  /\ fx = FxOff
  /\ jn = JnOff
  /\ lb = LbOff
  /\ tm \in TmCalls

NextTrain ==
  \/ MainSynthetic
  \/ MainLoadRaw
  \/ MainGuard
  \/ MainLabel
  \/ MainTrainAndSave
  \/ DumpModelOpen
  \/ DumpModelWrite
  \/ WriteMetricsOpen
  \/ WriteMetricsWrite
  \/ WriteMetaOpen
  \/ WriteMetaWrite
  \/ MainReturn

SpecTrain == InitTrain /\ [][NextTrain]_vars

\* the trainer is one sequential process and each of its steps ends
FairTrain == SpecTrain /\ WF_vars(NextTrain)

\* ------------------------------------------------------------------ claims
Scoring == rq.kind \in {"predict", "explain"}
GateLoaded == rq.gateModel # NoModel

\* C1: what a predict request reads from the globals (MODEL at the gate,
\* FEATURES for the row and for the frame columns, MODEL for scoring, and
\* MODEL_VERSION for the response) is one of the triples that memory held
\* between loads while the request ran: all old or all new.
C1_PredictSeesOneTriple ==
  (rq.kind = "predict" /\ rq.scored) =>
     \E s \in snaps :
        /\ rq.gateModel = s[3]
        /\ rq.rowSrc = s[1]
        /\ rq.colsSrc = s[1]
        /\ rq.scoredBy = s[3]
        /\ rq.status = 200 => rq.version = s[2]

\* C2: once a load attempt has ended, by returning or by raising (a raise
\* at startup ends the process and is left out), memory holds the triple it
\* held before the attempt, or the cleared triple, or the metadata and the
\* model binary this attempt read.
C2_LoadReplacesAtomically ==
  (ld.pc \in {"ret", "done"} /\ (ld.kind = "reload" \/ ~ld.raised)) =>
     \/ Triple = ld.before
     \/ Triple = << NoRun, VersionNone, NoModel >>
     \/ /\ ld.ok
        /\ FEATURES.src = ld.meta
        /\ MODEL_VERSION = MetaVersion(ld.meta)
        /\ MODEL # NoModel

\* C3: a load that returns loaded=true installed a model binary of the same
\* training run as the metadata it read.
C3_MismatchedPairRejected ==
  (ld.pc = "ret" /\ ld.ok) => MODEL = ld.meta

\* C4: whenever model.joblib and metadata.json are both in the artifact
\* directory they were written by the same training run.
C4_ArtifactsOfOneRun ==
  (Exists(modelFile) /\ Exists(metaFile)) => modelFile.run = metaFile.run

\* C5: a request that got past the model gate and whose mapping lacks
\* features of the schema in memory ends with 400 and a detail that lists
\* each lacking feature once and nothing else; 400 has no other cause.
C5_MissingFeaturesRejected ==
  (rq.pc = "done" /\ Scoring /\ rq.validated) =>
     LET lacking == Range(rq.schema) \ rq.feats
     IN  /\ lacking # {} =>
              /\ rq.status = 400
              /\ Range(rq.detail) = lacking
              /\ Len(rq.detail) = Cardinality(lacking)
         /\ rq.status = 400 => lacking # {}

C5_Witness ==
  /\ rq.pc = "done"
  /\ rq.kind = "predict"
  /\ rq.explicit
  /\ GateLoaded
  /\ rq.status = 400
  /\ rq.detail = << "free_ratio", "wind_speed_10m" >>

\* C6: a predict request with an explicit mapping that found a model loaded
\* and carries every feature of the schema ends with 200 and y in {0,1}.
C6_CompleteMappingSucceeds ==
  (/\ rq.pc = "done"
   /\ rq.kind = "predict"
   /\ rq.explicit
   /\ rq.validated
   /\ Range(rq.schema) \subseteq rq.names) =>
     /\ rq.status = 200
     /\ rq.y \in {0, 1}

\* C7: model unavailable is answered 503 and only that is, whatever the
\* request carries; a mapping lacking schema features is answered 400; a
\* failed store read is answered 500.
C7_ErrorClassesDistinct ==
  (rq.pc = "done" /\ Scoring) =>
     /\ rq.status = 503 <=> ~GateLoaded
     /\ rq.dbFailed => rq.status = 500
     /\ (rq.validated /\ ~(Range(rq.schema) \subseteq rq.feats)) => rq.status = 400
     /\ rq.status = 400 => (GateLoaded /\ ~rq.dbFailed)

C7_Witness ==
  /\ rq.pc = "done"
  /\ rq.kind = "predict"
  /\ ~rq.explicit
  /\ rq.dbFailed
  /\ rq.status = 500

\* C8: a try_load_model that finds metadata.json or model.joblib absent
\* returns loaded=false, raises nothing and leaves MODEL = None,
\* MODEL_VERSION = "none", FEATURES = [].
C8_LoadFailsSoft ==
  (ld.pc \in {"ret", "done"} /\ ~(ld.sawMeta /\ ld.sawModel)) =>
     /\ ~ld.ok
     /\ ~ld.raised
     /\ MODEL = NoModel
     /\ MODEL_VERSION = VersionNone
     /\ FEATURES = NoFeatures

C8_Witness ==
  /\ ld.pc = "ret"
  /\ ld.kind = "reload"
  /\ ld.before[3] # NoModel
  /\ ld.sawMeta
  /\ ~ld.sawModel
  /\ MODEL = NoModel

\* C9: /reload_model answers 500 exactly when a file of the artifact was
\* absent; then no model stays in memory; otherwise it answers 200 with the
\* version of the metadata it just loaded.
C9_ReloadContract ==
  (ld.pc = "done" /\ ld.kind = "reload") =>
     /\ ld.status = 500 <=> ~(ld.sawMeta /\ ld.sawModel)
     /\ ld.status = 500 => MODEL = NoModel
     /\ (ld.sawMeta /\ ld.sawModel) =>
           (ld.status = 200 /\ ld.version = MetaVersion(ld.meta))

\* C10: from a /reload_model that found no artifact until a load succeeds,
\* no model is in memory, /health reports model_loaded = false, and /model,
\* /predict and /explain answer 503.
C10_UnloadedAnswers503 ==
  /\ unloaded => MODEL = NoModel
  /\ (rq.pc = "done" /\ rq.gateUnloaded) =>
        IF rq.kind = "health"
          THEN rq.status = 200 /\ ~rq.model_loaded
          ELSE rq.status = 503

C10_Witness ==
  /\ unloaded
  /\ rq.pc = "done"
  /\ rq.kind = "explain"
  /\ rq.gateUnloaded
  /\ rq.names # {}
  /\ rq.status = 503
  /\ Readable(modelFile)
  /\ Readable(metaFile)

\* C11: a health request is always answered (200); its model_loaded field is
\* true exactly when the handler found a model in memory, and when it found
\* none the reported service status is "degraded".
C11_HealthReportsDegraded ==
  (rq.kind = "health" /\ rq.pc = "done") =>
     /\ rq.status = 200
     /\ rq.model_loaded = (rq.gateModel # NoModel)
     /\ ~rq.model_loaded => rq.health = "degraded"

\* C12: a successful predict response carries the version of the loaded
\* artifact whose model computed the probability (the version of that model's
\* own training run, or the version some load had installed together with that
\* model while the request ran), and a prediction_log row written for the
\* request carries the same version - also when a reload completes while the
\* request is in flight.
C12_VersionOfScoringModel ==
  (rq.kind = "predict" /\ rq.pc = "done" /\ rq.status = 200) =>
     /\ \/ rq.version = MetaVersion(rq.scoredBy)
        \/ \E s \in snaps : s[3] = rq.scoredBy /\ s[2] = rq.version
     /\ rq.logged => rq.logVer = rq.version

\* C13: every handled request (predict, explain, health, model, reload_model)
\* has incremented the request counter exactly once when it ends, under the
\* status it returns.
C13_EveryRequestCounted ==
  /\ rq.pc = "done" => rq.counted = << rq.status >>
  /\ (ld.pc = "done" /\ ld.kind = "reload") => ld.counted = << ld.status >>

\* C14: whatever the prediction_log insert does, the predict handler goes on to
\* respond with the y and proba it scored, and the response step answers 200
\* with the version it reads then and counts the request once as a 200: a
\* failed insert leaves the response as it is after a successful one.
C14_LoggingBestEffort ==
  [][ (rq.kind = "predict" /\ rq' # rq) =>
        /\ rq.pc = "log" =>
              /\ rq'.pc = "respond"
              /\ rq'.y = rq.y /\ rq'.proba = rq.proba
              /\ rq'.status = rq.status /\ rq'.counted = rq.counted
        /\ rq.pc = "respond" =>
              /\ rq'.pc = "done" /\ rq'.status = 200
              /\ rq'.y = rq.y /\ rq'.proba = rq.proba
              /\ rq'.version = MODEL_VERSION
              /\ rq'.counted = << 200 >> ]_vars

C14_Witness ==
  /\ rq.kind = "predict" /\ rq.pc = "done"
  /\ rq.logFailed /\ ~rq.logged
  /\ rq.status = 200 /\ rq.counted = << 200 >>

\* C15: when the remote backend fails (no key, the client raises, an empty
\* answer: rq.backend = "failed") the explain request carries the templated
\* fallback with llm_used = false and ends in 200; llm_used = true only with
\* the backend's non-empty text.
C15_ExplainDegradesToFallback ==
  (rq.kind = "explain" /\ rq.backend # "none") =>
     /\ rq.backend = "failed" =>
           /\ rq.pc \in {"respond", "done"}
           /\ rq.explanation = "fallback" /\ ~rq.llm_used
           /\ rq.pc = "done" => rq.status = 200
     /\ rq.llm_used => (rq.backend = "answered" /\ rq.explanation = "text")

C15_Witness ==
  /\ rq.kind = "explain" /\ rq.pc = "done" /\ rq.status = 200
  /\ rq.backend = "failed" /\ rq.explanation = "fallback" /\ ~rq.llm_used

C18_ExtractionNeverRaises ==
  fx.pc = "returned" =>
     /\ fx.payload.t = "obj" =>
           /\ ~fx.out.raised
           /\ DOMAIN fx.out.v = IF fx.kind = "bikes" THEN BikeFeatureNames
                                                    ELSE WeatherFeatureNames
     /\ fx.out.raised => fx.payload.t # "obj"

\* C19: every bike observation is one row of the training frame; the row
\* carries the weather features of a most recent weather observation at or
\* before it when that observation is at most 30 minutes earlier, and three
\* zeros otherwise (nothing at or before it, or the most recent one more than
\* 30 minutes earlier).
C19_AsOfJoin ==
  jn.pc = "returned" =>
     /\ Len(jn.merged) = Len(jn.bikes)
     /\ \A i \in DOMAIN jn.merged :
          LET t == jn.merged[i].ingested_at
              before == {x \in Range(jn.weather) : x.ingested_at <= t}
              recent == {x \in before : \A z \in before : z.ingested_at <= x.ingested_at}
          IN  IF \E x \in recent : t - x.ingested_at <= Tolerance
                THEN \E x \in recent : jn.merged[i].weather = x.weather
                ELSE jn.merged[i].weather = ZeroWeather

C19_Witness ==
  /\ jn.pc = "returned"
  /\ Len(jn.weather) = 1 /\ jn.weather[1].ingested_at = 1
  /\ Len(jn.merged) = 2
  /\ jn.merged[1].ingested_at = 0 /\ jn.merged[1].weather = ZeroWeather
  /\ jn.merged[2].ingested_at = 31 /\ jn.merged[2].weather = jn.weather[1].weather

\* the k-th smallest of the values, by counting
OrderStat(values, k) ==
  CHOOSE v \in Range(values) :
     /\ Cardinality({i \in DOMAIN values : values[i] < v}) < k
     /\ k <= Cardinality({i \in DOMAIN values : values[i] <= v})

\* thr is the 20th percentile of the values (position 0.20 * (n - 1) among
\* the sorted values, interpolated), and y marks the values below thr
Q20Rule(values, thr, y) ==
  LET n == Len(values)
      k == ((n - 1) \div 5) + 1
      f == (n - 1) % 5
  IN  /\ IF f = 0 THEN thr = OrderStat(values, k)
                  ELSE 5 * (thr - OrderStat(values, k))
                         = f * (OrderStat(values, k + 1) - OrderStat(values, k))
      /\ DOMAIN y = DOMAIN values
      /\ \A i \in DOMAIN values : y[i] = IF values[i] < thr THEN 1 ELSE 0

ExampleRatios == << 100, 100, 200, 300, 900 >>

\* C20: the threshold is the 20th percentile of free_ratio over the frame and
\* a row is labelled 1 exactly when its free_ratio is below it; on the values
\* [0.1, 0.1, 0.2, 0.3, 0.9] the threshold is 0.12 and the labels are
\* [1, 1, 0, 0, 0].
C20_Q20Example ==
  lb.pc = "labelled" =>
     /\ Q20Rule(lb.free_ratio, lb.thr, lb.y)
     /\ lb.free_ratio = ExampleRatios =>
           (lb.thr = 120 /\ lb.y = << 1, 1, 0, 0, 0 >>)

\* C20, amended: the threshold is the 20th percentile of free_ratio over the
\* frame and a row is labelled 1 exactly when its free_ratio is below it; on
\* the values [0.1, 0.1, 0.2, 0.3, 0.9] the threshold is 0.1 and the labels
\* are [0, 0, 0, 0, 0].
C20_Q20ExampleAmended ==
  lb.pc = "labelled" =>
     /\ Q20Rule(lb.free_ratio, lb.thr, lb.y)
     /\ lb.free_ratio = ExampleRatios =>
           (lb.thr = 100 /\ lb.y = << 0, 0, 0, 0, 0 >>)

C20_Witness ==
  /\ lb.pc = "labelled"
  /\ lb.free_ratio = ExampleRatios
  /\ lb.thr = 100 /\ lb.y = << 0, 0, 0, 0, 0 >>

\* C21: a run on the store whose frame has fewer than 20 rows never labels,
\* fits or saves, leaves model.joblib, metrics.json and metadata.json as they
\* were, and ends with the "Not enough samples" error; a run whose frame has
\* 20 rows or more goes on to train_and_save.
C21_TooFewRowsFailFast ==
  /\ [](tm.mode = "db" /\ tm.n < MinRows
          => /\ tm.pc \notin {"label", "train", "saving"}
             /\ tm.run = NoRun
             /\ trainer = TrainerIdle
             /\ tm.exit # "ok")
  /\ [][tm.mode = "db" /\ tm.n < MinRows
          => UNCHANGED << modelFile, metricsFile, metaFile >>]_vars
  /\ (tm.pc = "guard" /\ tm.n < MinRows)
       ~> (tm.pc = "exited" /\ tm.exit = "error" /\ tm.error = "not_enough_samples")
  /\ (tm.pc = "guard" /\ tm.n >= MinRows) ~> (tm.pc = "train")

C21_Witness ==
  /\ tm.mode = "db" /\ tm.n = MinRows - 1
  /\ tm.pc = "exited" /\ tm.error = "not_enough_samples"
  /\ Readable(modelFile) /\ modelFile.run = 1

\* C22: every --synthetic run ends with status 0 and then model.joblib,
\* metrics.json and metadata.json of that run are in the artifact directory,
\* metadata.json naming the 8 features in training order and the rule
\* synthetic_fixed with threshold 0.30.
C22_SyntheticRunSucceeds ==
  /\ (tm.mode = "synthetic" /\ tm.pc = "main") ~> (tm.pc = "exited" /\ tm.exit = "ok")
  /\ [](tm.mode = "synthetic" /\ tm.exit = "ok"
          => /\ modelFile = Complete(tm.run)
             /\ metricsFile = Complete(tm.run)
             /\ metaFile = Complete(tm.run)
             /\ MetaFeatures(metaFile.run).names = FeatureCols
             /\ tm.target = [rule_name |-> "synthetic_fixed", threshold |-> 300])

\* C22, amended: a --synthetic run on the default 400 samples ends with
\* status 0; every --synthetic run that ends with status 0 has left
\* model.joblib, metrics.json and metadata.json of that run, metadata.json
\* naming the 8 features in training order and the rule synthetic_fixed with
\* threshold 0.30; a --synthetic run that ends with an error (as it does on
\* 0, 1 or 2 samples) has written no file.
C22_SyntheticRunSucceedsAmended ==
  /\ (tm.mode = "synthetic" /\ tm.pc = "main" /\ tm.n = DefaultSamples)
       ~> (tm.pc = "exited" /\ tm.exit = "ok")
  /\ [](tm.mode = "synthetic" /\ tm.exit = "ok"
          => /\ modelFile = Complete(tm.run)
             /\ metricsFile = Complete(tm.run)
             /\ metaFile = Complete(tm.run)
             /\ MetaFeatures(metaFile.run).names = FeatureCols
             /\ tm.target = [rule_name |-> "synthetic_fixed", threshold |-> 300])
  /\ [](tm.mode = "synthetic" /\ tm.exit = "error"
          => tm.run = NoRun /\ trainer = TrainerIdle)
  /\ [][tm.mode = "synthetic" /\ tm'.exit = "error"
          => UNCHANGED << modelFile, metricsFile, metaFile >>]_vars
  /\ [](tm.mode = "synthetic" /\ tm.n <= 2 => tm.exit # "ok" /\ tm.pc # "saving")

C22_Witness ==
  /\ tm.mode = "synthetic" /\ tm.n = DefaultSamples
  /\ tm.pc = "exited" /\ tm.exit = "ok"
  /\ metaFile = Complete(2)

\* C23: in loop mode cycle k runs after exactly k - 1 sleeps have returned; a
\* cycle starts only at the head of the loop, one at a time; a sleep starts
\* only when run_once has returned or its failure has been logged, and
\* returns to the head of the loop, so a failed cycle is followed by the
\* sleep and not by another run_once.
C23_CyclesSeparatedBySleep ==
  /\ [](ing.mode = "loop"
          => /\ ing.pc = "call" => ing.slept = ing.cycle
             /\ ing.pc # "call" => ing.slept = ing.cycle - 1)
  /\ [][ing.mode = "loop" /\ ing'.cycle # ing.cycle
          => ing.pc = "call" /\ ing'.pc = "config" /\ ing'.cycle = ing.cycle + 1]_vars
  /\ [][ing.mode = "loop" /\ ing.pc = "except" => ing'.pc = "sleep"]_vars
  /\ [][ing.mode = "loop" /\ ing'.pc = "sleep" => ing.pc \in {"ok", "except"}]_vars
  /\ [][ing.mode = "loop" /\ ing'.slept # ing.slept
          => ing.pc = "sleep" /\ ing'.pc = "call" /\ ing'.slept = ing.slept + 1]_vars

C23_Witness ==
  /\ ing.mode = "loop" /\ ing.pc = "config"
  /\ ing.cycle = 2 /\ ing.failures = 1 /\ ing.slept = 1

\* C27: raw_bikes and raw_weather always hold the same number of rows; while
\* run_once is running, up to its commit, the tables are as the cycle found
\* them; a run_once that returned has added exactly one row to each; one
\* that failed in the configuration, a fetch, the connection or an insert
\* has added nothing, and one whose commit raised has added nothing or one
\* row to each.
C27_CycleAllOrNothing ==
  LET plusOne == [raw_bikes |-> ing.before.raw_bikes + 1,
                  raw_weather |-> ing.before.raw_weather + 1]
  IN  /\ store.raw_bikes = store.raw_weather
      /\ ing.pc \in {"config", "fetch_bikes", "fetch_weather", "connect",
                     "insert_bikes", "insert_weather", "commit"}
           => store = ing.before
      /\ (ing.cycle >= 1 /\ ~ing.failed /\ ing.pc \in {"ok", "sleep", "call", "exited"})
           => store = plusOne
      /\ (ing.failed /\ ing.cause \in {"config", "fetch", "store"}) => store = ing.before
      /\ (ing.failed /\ ing.cause = "commit") => store \in {ing.before, plusOne}

C27_Witness ==
  /\ ing.failed /\ ing.cause = "store" /\ ing.cycle = 2
  /\ store = [raw_bikes |-> 1, raw_weather |-> 1]
  /\ ing.before = store

\* C24: the frame load_raw_from_db returns is the same for every order in
\* which the rows of raw_bikes and of raw_weather are presented to it and
\* every order sort_values leaves them in, rows with equal timestamps
\* included.
C24_JoinOrderIndependent ==
  jn.pc = "returned" =>
    \A b \in Reorderings(jn.bikes), w \in Reorderings(jn.weather) :
      \A bikes_df \in SortValues(b), weather_df \in SortValues(w) :
        MergeAsof(bikes_df, weather_df) = jn.merged

\* C25: the row predict resolves from the store - the features of the latest
\* bike observation with those of the latest weather observation - is the row
\* load_raw_from_db produces for the latest bike observation over the same
\* tables, so its weather features are zero when the latest weather
\* observation is later than the latest bike observation or more than 30
\* minutes before it.
C25_ServingRowIsBuilderRow ==
  jn.pc = "resolved" => jn.served = jn.merged[Len(jn.merged)]

\* C26: the names the service's bikes_features and weather_features return,
\* which are the names of a mapping resolved from the store, are the 8 names
\* the trainer writes as "features"; a predict or explain request without
\* explicit features that found a model loaded and read the store never ends
\* with 400, and is validated against a schema in memory it lacks nothing of.
C26_StoreSchemaAgrees ==
  /\ StoreFeatureNames = Range(FeatureCols)
  /\ StoreFeatureNames = DOMAIN serving_bikes_features(JObj(EmptyMap)).v
                           \cup DOMAIN serving_weather_features(JObj(EmptyMap)).v
  /\ (Scoring /\ ~rq.explicit /\ rq.pc # "idle")
       => /\ rq.status # 400
          /\ rq.validated => (rq.feats = StoreFeatureNames /\ Range(rq.schema) \subseteq rq.feats)

C26_Witness ==
  /\ rq.pc = "done" /\ rq.kind = "predict" /\ ~rq.explicit
  /\ GateLoaded /\ rq.validated /\ rq.schema = FeatureCols
  /\ rq.status = 200

\* C28: on every payload, a mapping or not, the trainer's bikes_features and
\* the service's return the same mapping or both raise, and so do the two
\* weather_features.
C28_ExtractorsEquivalent ==
  fx.pc = "returned" =>
    /\ fx.kind = "bikes"
         => /\ fx.out = bikes_features(fx.payload)
            /\ fx.out = serving_bikes_features(fx.payload)
    /\ fx.kind = "weather"
         => /\ fx.out = weather_features(fx.payload)
            /\ fx.out = serving_weather_features(fx.payload)

C28_Witness ==
  /\ fx.pc = "returned" /\ fx.svc = "inference" /\ fx.kind = "bikes"
  /\ ~fx.out.raised
  /\ fx.out.v.free_bikes = 2 /\ fx.out.v.empty_slots = 1
  /\ fx.out = bikes_features(fx.payload)

====
